---------------------------- MODULE Spec2Model ----------------------------
(***************************************************************************)
(* A model of one routing node of MaidSafe-Routing                        *)
(* (include/maidsafe/routing/routing_node.h): the forwarding pipeline     *)
(* RoutingNode::MessageReceived, the handshake handlers it dispatches to, *)
(* and the routing table, duplicate filter and content cache it uses.     *)
(*                                                                         *)
(* Identifiers are IdBits wide instead of 512 bits, the close group holds *)
(* GroupSize peers instead of 8 and the table RoutingTableSize peers      *)
(* instead of 64.  An optional value (boost::optional) is the empty set   *)
(* or a one-element set.                                                   *)
(***************************************************************************)
EXTENDS Integers, Sequences, FiniteSets, TLC

----------------------------------------------------------------------------
(* Identifiers and the XOR metric                                          *)

IdBits == 3

Ids == 0 .. (2^IdBits - 1)

\* bitwise XOR of two naturals: the distance between two identifiers
RECURSIVE Xor(_, _)
Xor(a, b) ==
  IF a = 0 THEN b
  ELSE IF b = 0 THEN a
  ELSE (((a % 2) + (b % 2)) % 2) + (2 * Xor(a \div 2, b \div 2))

\* NodeId::CloserToTarget(a, b, t): a is strictly closer to t than b is
CloserToTarget(a, b, t) == Xor(a, t) < Xor(b, t)

\* number of bits of a natural (0 for 0)
RECURSIVE BitLength(_)
BitLength(n) == IF n = 0 THEN 0 ELSE 1 + BitLength(n \div 2)

\* the identifier of the node that is modelled
OurId == 5

\* boost::none and a present optional
None == {}
Some(x) == {x}
TheValue(o) == CHOOSE x \in o : TRUE

----------------------------------------------------------------------------
(* Routing table (routing_table.h; the definitions are in routing_table.cc) *)

GroupSize == 2
RoutingTableSize == 4
kBucketSize_ == 1

SeqToSet(s) == {s[i] : i \in 1 .. Len(s)}

\* a set of identifiers as the sequence sorted by XOR distance to our id
RECURSIVE SortByDistance(_)
SortByDistance(S) ==
  IF S = {} THEN <<>>
  ELSE LET m == CHOOSE x \in S : \A y \in S : Xor(OurId, x) <= Xor(OurId, y)
       IN  <<m>> \o SortByDistance(S \ {m})

\* common leading bits of our id and node_id
bucket_index(node_id) == IdBits - BitLength(Xor(OurId, node_id))

\* the number of entries of table that share the bucket of its i-th entry
BucketCount(table, i) ==
  Cardinality({j \in 1 .. Len(table) : bucket_index(table[j]) = bucket_index(table[i])})

\* indices that may be evicted: outside the GroupSize closest, in a bucket
\* that holds more than kBucketSize_ entries
RemovalCandidates(table) ==
  {i \in 1 .. Len(table) : i > GroupSize /\ BucketCount(table, i) > kBucketSize_}

\* a scan that stops at the first entry beyond the close group
find_candidate_beyond_close(table) ==
  IF Len(table) > GroupSize THEN GroupSize + 1 ELSE 0

\* a scan that starts at the nearest entry and spares no close peer
find_candidate_from_nearest(table) ==
  IF \A i \in 1 .. Len(table) : BucketCount(table, i) <= kBucketSize_ THEN 0
  ELSE CHOOSE i \in 1 .. Len(table) :
         /\ BucketCount(table, i) > kBucketSize_
         /\ \A j \in 1 .. (i - 1) : BucketCount(table, j) <= kBucketSize_

\* the furthest such entry (the scan runs from the furthest entry inward);
\* 0 when there is none
find_candidate_for_removal(table) ==
  IF RemovalCandidates(table) = {} THEN 0
  ELSE CHOOSE i \in RemovalCandidates(table) : \A j \in RemovalCandidates(table) : j <= i

RemoveAt(s, i) == [j \in 1 .. (Len(s) - 1) |-> IF j < i THEN s[j] ELSE s[j + 1]]

\* a routing table that does not look whether it holds the peer already
add_node_twice(table, id) ==
  IF id = OurId THEN [added |-> FALSE, evicted |-> None, nodes |-> table]
  ELSE [added |-> TRUE, evicted |-> None, nodes |-> Append(table, id)]

\* a routing table that takes any identifier it does not hold, while it has room
add_node_anyone(table, id) ==
  IF id \in SeqToSet(table) \/ Len(table) >= RoutingTableSize
  THEN [added |-> FALSE, evicted |-> None, nodes |-> table]
  ELSE [added |-> TRUE, evicted |-> None, nodes |-> SortByDistance(SeqToSet(table) \cup {id})]

\* a routing table that keeps every identifier it is offered
add_node_keep_all(table, id) ==
  IF id = OurId \/ id \in SeqToSet(table)
  THEN [added |-> FALSE, evicted |-> None, nodes |-> table]
  ELSE [added |-> TRUE, evicted |-> None, nodes |-> SortByDistance(SeqToSet(table) \cup {id})]

\* a routing table that reports the new peer as evicted instead of rejecting it
add_node_no_reject(table, id) ==
  IF id = OurId \/ id \in SeqToSet(table)
  THEN [added |-> FALSE, evicted |-> None, nodes |-> table]
  ELSE LET grown == SortByDistance(SeqToSet(table) \cup {id})
           c     == find_candidate_for_removal(grown)
       IN  IF Len(grown) <= RoutingTableSize \/ c = 0
           THEN [added |-> TRUE, evicted |-> None, nodes |-> grown]
           ELSE [added |-> TRUE, evicted |-> Some(grown[c]), nodes |-> RemoveAt(grown, c)]

\* add_node: [added, evicted, nodes]
add_node(table, id) ==
  IF id = OurId \/ id \in SeqToSet(table)
  THEN [added |-> FALSE, evicted |-> None, nodes |-> table]
  ELSE LET grown == SortByDistance(SeqToSet(table) \cup {id})
           c     == find_candidate_for_removal(grown)
       IN  IF Len(grown) <= RoutingTableSize
           THEN [added |-> TRUE, evicted |-> None, nodes |-> grown]
           ELSE IF c = 0 \/ grown[c] = id
           THEN [added |-> FALSE, evicted |-> None, nodes |-> table]
           ELSE [added |-> TRUE, evicted |-> Some(grown[c]), nodes |-> RemoveAt(grown, c)]

\* a check that asks only whether the peer is new
check_node_new(table, id) == id # OurId /\ id \notin SeqToSet(table)

\* check_node: would add_node accept this id; the steps of add_node on a
\* copy, nothing stored
check_node(table, id) ==
  IF id = OurId \/ id \in SeqToSet(table) THEN FALSE
  ELSE IF Len(table) < RoutingTableSize THEN TRUE
  ELSE LET grown == SortByDistance(SeqToSet(table) \cup {id})
           c     == find_candidate_for_removal(grown)
       IN  c # 0 /\ grown[c] # id

\* drop_node
drop_node(table, id) == SelectSeq(table, LAMBDA x : x # id)

\* a close group that is the whole table
our_close_group_whole(table) == table

\* our_close_group: the up to GroupSize closest peers, closest first
our_close_group(table) ==
  SubSeq(table, 1, IF Len(table) < GroupSize THEN Len(table) ELSE GroupSize)

\* the peer of the table closest to id
ClosestTo(table, id) ==
  CHOOSE p \in SeqToSet(table) : \A q \in SeqToSet(table) : Xor(p, id) <= Xor(q, id)

\* id is within the radius of our close group
InCloseGroupRadius(table, id) ==
  /\ table # <<>>
  /\ LET group == our_close_group(table)
     IN  Xor(OurId, id) <= Xor(OurId, group[Len(group)])

\* a table that is in swarm mode exactly when fewer than GroupSize of its
\* peers are closer to id than the owner
target_nodes_in_range(table, id) ==
  IF table = <<>> THEN <<>>
  ELSE IF Cardinality({p \in SeqToSet(table) : CloserToTarget(p, OurId, id)}) < GroupSize
  THEN our_close_group(table)
  ELSE <<ClosestTo(table, id)>>

\* target_nodes: the whole close group in swarm mode, else the closest peer
target_nodes(table, id) ==
  IF table = <<>> THEN <<>>
  ELSE IF InCloseGroupRadius(table, id) THEN our_close_group(table)
  ELSE <<ClosestTo(table, id)>>

\* connection manager: fewer than GroupSize peers are closer to id than we are
AddressInCloseGroupRange(table, id) ==
  Cardinality({p \in SeqToSet(table) : CloserToTarget(p, OurId, id)}) < GroupSize


----------------------------------------------------------------------------
(* Messages: header, tag and body (message_header.h, messages/)            *)

\* ok            the header and the tag parse
\* dst, reply_to DestinationAddress: the target, the optional reply-to
\* src, grp, src_reply_to   SourceAddress: node, optional group, optional
\*               reply-to address of a relayed sender
\* mid           the message id;  auth: the authority the sender claims
\* signed        the optional signature: the signer
\* tag, body     the MessageTypeTag and the body that follows it
Message(ok, dst, reply_to, src, grp, src_reply_to, mid, auth, signed, tag, body) ==
  [ok |-> ok, dst |-> dst, reply_to |-> reply_to, src |-> src, grp |-> grp,
   src_reply_to |-> src_reply_to, mid |-> mid, auth |-> auth, signed |-> signed,
   tag |-> tag, body |-> body]

Tags == {"Connect", "ConnectResponse", "FindGroup", "FindGroupResponse",
         "GetData", "GetDataResponse", "PutData", "PutDataResponse",
         "Post", "PostResponse"}

\* MessageHeader::FilterValue: the source node and the message id
FilterValue(header) == <<header.src, header.mid>>

\* MessageHeader::RelayedMessage and ReplyToAddress
RelayedMessage(header) == header.reply_to # None
ReplyToAddress(header) == header.reply_to

\* MessageHeader::ReturnDestinationAddress: back to the source node, with the
\* reply-to address of a relayed sender
ReturnDestinationAddress(header) == [dst |-> header.src, reply_to |-> header.src_reply_to]

\* the public key and the endpoints a peer announces
FobOf(id) == <<"pmid", id>>
EndpointsOf(id) == <<"endpoints", id>>

\* Connect(requester_endpoints, requester_id, receiver_id, requester_fob)
ConnectBody(endpoints, requester, receiver, fob) ==
  [requester_endpoints |-> endpoints, requester_id |-> requester, receiver_id |-> receiver,
   requester_fob |-> fob]

\* ConnectResponse(requester_endpoints, receiver_endpoints, requester_id,
\* receiver_id, receiver_fob)
ConnectResponseBody(req_endpoints, rcv_endpoints, requester, receiver, fob) ==
  [requester_endpoints |-> req_endpoints, receiver_endpoints |-> rcv_endpoints,
   requester_id |-> requester, receiver_id |-> receiver, receiver_fob |-> fob]

\* FindGroup(requester_id, target_id)
FindGroupBody(requester, target) == [target_id |-> target, requester_id |-> requester]

\* NodeInfo(id, fob, connected) and the endpoints handed to the connection manager
AddRequest(op, id, fob, endpoints) == [op |-> op, id |-> id, fob |-> fob, endpoints |-> endpoints]

----------------------------------------------------------------------------
(* The node                                                                *)

VARIABLES
  nodes_,           \* connection_manager_'s routing table, closest first
  non_routing,      \* connection_manager_.GetNonRoutingNodes()
  pending,          \* AddNode / AddNodeAccept calls that have not completed
  filter_,          \* the keys the duplicate filter holds
  cache_,           \* the content cache: name -> payload
  bootstrap_node_,  \* optional
  message_id_,      \* the message id counter
  threads,          \* the executor threads inside MessageReceived
  rcvd,             \* the datagram of the last MessageReceived, if any
  out,              \* what the last handler did, in program order
  seen,             \* per filter key: datagrams delivered
  forwarded,        \* per filter key: forwarding rounds
  dispatched,       \* per filter key: local dispatches
  our_external_endpoint_,  \* optional: our endpoint as the bootstrap contact saw it
  connecting,       \* the bootstrap contacts whose Connect has not completed
  joining,          \* the contacts whose callback has yet to call ConnectToCloseGroup
  peer_node,        \* the state of a second node, if one is modelled
  wire,             \* the datagrams in flight between the two nodes
  destroy_indicator_,  \* TRUE until ~RoutingNode releases it
  offered,          \* the peers a caller of the routing table alone has handed to add_node
  originated        \* the message ids of the Get, Put and Post messages sent so far

node_vars == <<nodes_, non_routing, pending, filter_, cache_, bootstrap_node_, message_id_,
               our_external_endpoint_>>
boot_vars == <<connecting, joining>>
net_vars == <<peer_node, wire>>
life_vars == <<destroy_indicator_, offered, originated>>
obs_vars == <<rcvd, out>>
count_vars == <<seen, forwarded, dispatched>>
vars == <<node_vars, threads, obs_vars, count_vars, boot_vars, net_vars, life_vars>>

\* message ids are MsgIdBits wide instead of 32 bits
MsgIdBits == 2
MsgIds == 0 .. (2^MsgIdBits - 1)

\* ++message_id_
NextMessageId(id) == (id + 1) % (2^MsgIdBits)

\* the node's own public key, stored in the cache under its own name
OurPublicPmid == "pmid"

\* QuorumSize: the table size at which the bootstrap node is let go
QuorumSize == GroupSize

\* OurSourceAddress()
OurSourceAddress ==
  IF bootstrap_node_ # None
  THEN [src |-> TheValue(bootstrap_node_), grp |-> None, src_reply_to |-> Some(OurId)]
  ELSE [src |-> OurId, grp |-> None, src_reply_to |-> None]

\* OurSourceAddress(GroupAddress)
OurSourceAddressGroup(group) == [src |-> OurId, grp |-> Some(group), src_reply_to |-> None]

\* NextEndpointPair(): empty until our external endpoint is known
NextEndpointPair ==
  IF our_external_endpoint_ = None THEN <<>>
  ELSE <<"local", TheValue(our_external_endpoint_)>>

\* our_fob_'s public key as carried in messages
OurFob == FobOf(OurId)

\* events of out
SendEvent(to, msg) == [ev |-> "send", to |-> to, msg |-> msg]
RelayEvent(to, msg) == [ev |-> "relay", to |-> to, msg |-> msg]
HandleEvent(msg) == [ev |-> "handle", tag |-> msg.tag, msg |-> msg]
ThrowEvent(what) == [ev |-> "throw", what |-> what]
ChurnEvent(diff) == [ev |-> "HandleChurn", diff |-> diff]

\* connection_manager_.Send(target.id, msg, ...) for every target, in order
SendToAll(targets, msg) == [i \in 1 .. Len(targets) |-> SendEvent(targets[i], msg)]

\* what a handler did: its events, the pending adds and the id counter after it
Effect(events, pend, mid) == [out |-> events, pending |-> pend, mid |-> mid]
NoEffect == Effect(<<>>, pending, message_id_)

----------------------------------------------------------------------------
(* The handshake handlers                                                  *)

\* HandleMessage(Connect, original_header)
HandleConnect(d) ==
  IF ~check_node(nodes_, d.body.requester_id) THEN Effect(<<HandleEvent(d)>>, pending, message_id_)
  ELSE LET targets == target_nodes(nodes_, d.body.requester_id)
           ret     == ReturnDestinationAddress(d)
           from    == OurSourceAddress
           respond == Message(TRUE, ret.dst, ret.reply_to, from.src, from.grp,
                              from.src_reply_to, d.mid, "node", Some(OurId), "ConnectResponse",
                              ConnectResponseBody(d.body.requester_endpoints, NextEndpointPair,
                                                  d.body.requester_id, OurId, OurFob))
       IN  Effect(<<HandleEvent(d)>> \o SendToAll(targets, respond),
                  Append(pending, AddRequest("AddNodeAccept", d.body.requester_id,
                                             d.body.requester_fob, d.body.requester_endpoints)),
                  message_id_)

\* HandleMessage(ConnectResponse)
HandleConnectResponse(d) ==
  IF ~check_node(nodes_, d.body.requester_id) THEN Effect(<<HandleEvent(d)>>, pending, message_id_)
  ELSE Effect(<<HandleEvent(d)>>,
              Append(pending, AddRequest("AddNode", d.body.requester_id,
                                         d.body.receiver_fob, d.body.receiver_endpoints)),
              message_id_)

\* HandleMessage(FindGroup, original_header)
HandleFindGroup(d) ==
  LET group    == Append(our_close_group(nodes_), OurId)
      ret      == ReturnDestinationAddress(d)
      from     == OurSourceAddressGroup(d.body.target_id)
      response == Message(TRUE, ret.dst, ret.reply_to, from.src, from.grp, from.src_reply_to,
                          d.mid, "nae_manager", Some(OurId), "FindGroupResponse",
                          [target_id |-> d.body.target_id, group |-> group])
  IN  Effect(<<HandleEvent(d)>> \o SendToAll(target_nodes(nodes_, d.src), response),
             pending, message_id_)

\* the loop of HandleMessage(FindGroupResponse, ...) over group[i..], with the
\* id counter mid
RECURSIVE ConnectToEach(_, _, _)
ConnectToEach(group, i, mid) ==
  IF i > Len(group) THEN Effect(<<>>, pending, mid)
  ELSE IF ~check_node(nodes_, group[i]) THEN ConnectToEach(group, i + 1, mid)
  ELSE LET from    == OurSourceAddress
           id      == NextMessageId(mid)
           message == Message(TRUE, group[i], None, from.src, from.grp, from.src_reply_to,
                              id, "nae_manager", None, "Connect",
                              ConnectBody(NextEndpointPair, OurId, group[i], OurFob))
           rest    == ConnectToEach(group, i + 1, id)
       IN  Effect(SendToAll(target_nodes(nodes_, group[i]), message) \o rest.out,
                  pending, rest.mid)

\* HandleMessage(FindGroupResponse, original_header)
HandleFindGroupResponse(d) ==
  LET sent == ConnectToEach(d.body.group, 1, message_id_)
  IN  Effect(<<HandleEvent(d)>> \o sent.out, pending, sent.mid)

----------------------------------------------------------------------------
(* Bootstrap                                                               *)

\* the tag the multicast branch serialises the FindGroup message with
MulticastTag == "Connect"

\* ConnectToCloseGroup(): the FindGroup for our own id, through the bootstrap
\* node while there is one, else to GetTarget(OurId())
ConnectToCloseGroup ==
  LET from    == OurSourceAddress
      id      == NextMessageId(message_id_)
      msg(tag) == Message(TRUE, OurId, None, from.src, from.grp, from.src_reply_to, id,
                          "node", None, tag, FindGroupBody(OurId, OurId))
  IN  IF bootstrap_node_ # None
      THEN Effect(<<SendEvent(TheValue(bootstrap_node_), msg("FindGroup"))>>, pending, id)
      ELSE Effect(SendToAll(target_nodes(nodes_, OurId), msg(MulticastTag)), pending, id)

\* the callback of connection_manager_.Connect(contact...) up to the call of
\* ConnectToCloseGroup: the error and identifier checks and the two assignments
BootstrapConnected(contact, error, addr, our_endpoint) ==
  IF error \/ addr # contact
  THEN UNCHANGED <<bootstrap_node_, our_external_endpoint_, joining>>
  ELSE /\ bootstrap_node_' = Some(contact)
       /\ our_external_endpoint_' = Some(our_endpoint)
       /\ joining' = joining \cup {contact}


----------------------------------------------------------------------------
(* The authority classifier and the GetData handler                        *)

\* a classifier that asks about the element first
OurAuthorityOfElement(element, header) ==
  IF AddressInCloseGroupRange(nodes_, element) /\ header.dst = element
  THEN "nae_manager"
  ELSE IF header.grp = None /\ AddressInCloseGroupRange(nodes_, header.src)
  THEN "client_manager"
  ELSE IF header.grp # None /\ header.dst # OurId
  THEN "node_manager"
  ELSE IF header.grp # None /\ header.dst = OurId
  THEN "managed_node"
  ELSE "invalid"

\* OurAuthority(element, header); "invalid" stands for the exception thrown
OurAuthority(element, header) ==
  IF header.grp = None /\ AddressInCloseGroupRange(nodes_, header.src) /\ header.dst # element
  THEN "client_manager"
  ELSE IF AddressInCloseGroupRange(nodes_, element) /\ header.dst = element
  THEN "nae_manager"
  ELSE IF header.grp # None /\ AddressInCloseGroupRange(nodes_, header.dst)
          /\ header.dst # OurId
  THEN "node_manager"
  ELSE IF header.grp # None /\ AddressInCloseGroupRange(nodes_, TheValue(header.grp))
          /\ header.dst = OurId
  THEN "managed_node"
  ELSE "invalid"

\* HandleMessage(GetData, header): the upcall Child::HandleGet
HandleGetData(d) ==
  LET authority == OurAuthority(d.body.name, d)
  IN  IF authority = "invalid"
      THEN Effect(<<HandleEvent(d), ThrowEvent("OurAuthority")>>, pending, message_id_)
      ELSE Effect(<<HandleEvent(d),
                    [ev |-> "HandleGet", source |-> <<d.src, d.grp, d.src_reply_to>>,
                     authority |-> authority, data_tag |-> d.body.data_tag,
                     name |-> d.body.name]>>,
                  pending, message_id_)

----------------------------------------------------------------------------
(* RoutingNode::MessageReceived                                            *)

\* a node that takes every byte string for a well-formed header and tag
ParseAlways(d) == TRUE

\* Parse(binary_input_stream, header, tag) succeeds
ParseHeader(d) == d.ok

\* a node whose filter never reports a key as seen
NeverSeen(d) == FALSE

\* filter_.Check(header.FilterValue())
AlreadySeen(d) == FilterValue(d) \in filter_

\* a node whose filter keeps no new key
FilterKept(d) == filter_

\* filter_.Add({header.FilterValue()})
FilterAdd(d) == filter_ \cup {FilterValue(d)}

\* a node that does not cache the payloads passing through
CacheKept(d) == cache_

\* the cache after "We add these to cache"
CacheAdd(d) ==
  IF d.tag = "GetDataResponse" /\ d.body.data # None
  THEN [n \in DOMAIN cache_ \cup {d.body.name} |->
          IF n = d.body.name THEN TheValue(d.body.data) ELSE cache_[n]]
  ELSE cache_

\* the steps before the forwarding loop have read the body off the stream
BodyConsumed(d) == d.tag \in {"GetDataResponse", "GetData"}

\* a node that always forwards to its whole close group
ForwardToCloseGroup(d) == SendToAll(our_close_group(nodes_), d)

\* a node that always forwards to the single closest peer
ForwardToClosest(d) ==
  SendToAll(IF nodes_ = <<>> THEN <<>> ELSE <<ClosestTo(nodes_, d.dst)>>, d)

\* "send to next node(s) even our close group (swarm mode)"
Forward(d) == SendToAll(target_nodes(nodes_, d.dst), d)

\* a node that never relays to a client
NeverRelay(d) == FALSE

\* the message is relayed to a connected non-routing node
RelayToClient(d) ==
  /\ RelayedMessage(d)
  /\ \E node \in non_routing : node = TheValue(ReplyToAddress(d))

\* a node that takes every destination for its own
AlwaysForUs(d) == FALSE

\* "not for us"
NotForUs(d) == ~AddressInCloseGroupRange(nodes_, d.dst)

\* a node that handles the direct messages of other nodes
NoDirectDrop(d) == FALSE

\* a direct message (Connect, ConnectResponse) for another node of the group
DirectDrop(d) ==
  /\ d.tag \in {"Connect", "ConnectResponse"}
  /\ d.dst # OurId

\* switch (tag): Parse<T>(binary_input_stream) and the handler
Dispatch(d) ==
  CASE d.tag = "Connect"           -> HandleConnect(d)
    [] d.tag = "ConnectResponse"   -> HandleConnectResponse(d)
    [] d.tag = "FindGroup"         -> HandleFindGroup(d)
    [] d.tag = "FindGroupResponse" -> HandleFindGroupResponse(d)
    [] d.tag = "GetData"           ->
         IF BodyConsumed(d)
         THEN Effect(<<ThrowEvent("Parse<GetData>")>>, pending, message_id_)
         ELSE HandleGetData(d)
    [] d.tag = "GetDataResponse"   -> NoEffect
    [] d.tag = "PutData"           -> Effect(<<HandleEvent(d)>>, pending, message_id_)
    [] d.tag = "Post"              -> Effect(<<HandleEvent(d)>>, pending, message_id_)
    [] OTHER                       -> NoEffect

\* what follows the forwarding loop
AfterForward(d) ==
  IF RelayToClient(d)
  THEN Effect(<<RelayEvent(TheValue(ReplyToAddress(d)), d)>>, pending, message_id_)
  ELSE IF NotForUs(d) THEN NoEffect
  ELSE IF DirectDrop(d) THEN NoEffect
  ELSE Dispatch(d)

\* filter_.Add and cache_.Add as events of out
FilterEvents(d) == <<[ev |-> "filter_add", key |-> FilterValue(d)]>>
CacheEvents(d) ==
  IF d.tag = "GetDataResponse" /\ d.body.data # None
  THEN <<[ev |-> "cache_add", name |-> d.body.name, data |-> TheValue(d.body.data)]>>
  ELSE <<>>

\* a node that dispatches before it forwards
DispatchThenForward(d) ==
  FilterEvents(d) \o CacheEvents(d) \o AfterForward(d).out \o Forward(d)

\* the events of one datagram that passed the filter, in program order
Pipeline(d) == FilterEvents(d) \o CacheEvents(d) \o Forward(d) \o AfterForward(d).out

\* MessageReceived from filter_.Add on
Process(d) ==
  /\ filter_' = FilterAdd(d)
  /\ cache_' = CacheAdd(d)
  /\ pending' = AfterForward(d).pending
  /\ message_id_' = AfterForward(d).mid
  /\ out' = Pipeline(d)
  /\ UNCHANGED <<nodes_, non_routing, bootstrap_node_, our_external_endpoint_>>

\* MessageReceived returns before filter_.Add
Discard ==
  /\ out' = <<>>
  /\ UNCHANGED node_vars

\* the whole of MessageReceived, run by one thread without interleaving
MessageReceived(d) ==
  /\ rcvd' = Some(d)
  /\ IF ParseHeader(d) /\ ~AlreadySeen(d) THEN Process(d) ELSE Discard


----------------------------------------------------------------------------
(* Deferred completions, the transport and the passing of time             *)

\* nothing is recorded of an earlier handler
Quiet == rcvd = None /\ out = <<>>

\* the records of the last handler are dropped
Flush ==
  /\ ~Quiet
  /\ rcvd' = None
  /\ out' = <<>>
  /\ UNCHANGED <<node_vars, threads, count_vars, boot_vars, net_vars, life_vars>>

\* the change of the close group between two tables, if any
CloseGroupDifference(old, new) ==
  LET o == SeqToSet(our_close_group(old))
      n == SeqToSet(our_close_group(new))
  IN  IF o = n THEN None ELSE Some([added |-> n \ o, removed |-> o \ n])

\* the callbacks of AddNode and AddNodeAccept: "if (added) HandleChurn(*added)"
ChurnCallback(diff) == IF diff # None THEN <<ChurnEvent(TheValue(diff))>> ELSE <<>>

\* the record of the completion of a pending add
AddDoneEvent(request, connected, added) ==
  [ev |-> "AddDone", op |-> request.op, id |-> request.id, connected |-> connected,
   added |-> added]

\* the connection manager completes the i-th pending add; connected says
\* whether the connection was made
CompleteAdd(i, connected) ==
  LET id    == pending[i].id
      added == IF connected THEN add_node(nodes_, id)
               ELSE [added |-> FALSE, evicted |-> None, nodes |-> nodes_]
  IN  /\ nodes_' = added.nodes
      /\ non_routing' = IF added.added THEN non_routing \ {id} ELSE non_routing
      /\ pending' = RemoveAt(pending, i)
      /\ out' = <<AddDoneEvent(pending[i], connected, added.added)>>
                 \o ChurnCallback(CloseGroupDifference(nodes_, added.nodes))
      /\ rcvd' = None
      /\ UNCHANGED <<filter_, cache_, message_id_, our_external_endpoint_, threads,
                     count_vars, boot_vars, net_vars, life_vars>>

\* "if (!destroy_guard.lock()) return;": the completion of the i-th pending
\* add fires when the node has been torn down
GuardedReturn(i) ==
  /\ pending' = RemoveAt(pending, i)
  /\ out' = <<[ev |-> "destroy_guard"]>>
  /\ rcvd' = None
  /\ UNCHANGED <<nodes_, non_routing, filter_, cache_, bootstrap_node_, message_id_,
                 our_external_endpoint_, threads, count_vars, boot_vars, net_vars, life_vars>>

\* the completion of AddNodeAccept, issued by HandleMessage(Connect)
AddNodeAcceptDone(i, connected) ==
  /\ Quiet
  /\ i \in 1 .. Len(pending)
  /\ pending[i].op = "AddNodeAccept"
  /\ IF destroy_indicator_
     THEN CompleteAdd(i, connected) /\ UNCHANGED bootstrap_node_
     ELSE GuardedReturn(i)

\* the completion of AddNode, issued by HandleMessage(ConnectResponse)
AddNodeDone(i, connected) ==
  /\ Quiet
  /\ i \in 1 .. Len(pending)
  /\ pending[i].op = "AddNode"
  /\ IF destroy_indicator_
     THEN /\ CompleteAdd(i, connected)
          /\ bootstrap_node_' = IF Len(nodes_') >= QuorumSize THEN None ELSE bootstrap_node_
     ELSE GuardedReturn(i)

\* the record of a handler that is not MessageReceived
CallEvent(what) == [ev |-> what]

\* a bootstrap Connect completes and its callback runs up to ConnectToCloseGroup
BootstrapConnectDone(contact, error, addr, our_endpoint) ==
  /\ Quiet
  /\ contact \in connecting
  /\ connecting' = connecting \ {contact}
  /\ BootstrapConnected(contact, error, addr, our_endpoint)
  /\ rcvd' = None
  /\ out' = <<CallEvent("BootstrapConnect")>>
  /\ UNCHANGED <<nodes_, non_routing, pending, filter_, cache_, message_id_, threads,
                 count_vars, net_vars, life_vars>>

\* the callback goes on: ConnectToCloseGroup()
BootstrapJoin(contact) ==
  /\ Quiet
  /\ contact \in joining
  /\ joining' = joining \ {contact}
  /\ message_id_' = ConnectToCloseGroup.mid
  /\ rcvd' = None
  /\ out' = <<CallEvent("ConnectToCloseGroup")>> \o ConnectToCloseGroup.out
  /\ UNCHANGED <<nodes_, non_routing, pending, filter_, cache_, bootstrap_node_,
                 our_external_endpoint_, connecting, threads, count_vars, net_vars, life_vars>>

\* the connection to a peer is lost: ConnectionLost(diff, peer)
ConnectionLost(peer) ==
  /\ Quiet
  /\ peer \in SeqToSet(nodes_) \cup non_routing
  /\ nodes_' = drop_node(nodes_, peer)
  /\ non_routing' = non_routing \ {peer}
  /\ out' = ChurnCallback(CloseGroupDifference(nodes_, nodes_'))
  /\ rcvd' = None
  /\ UNCHANGED <<pending, filter_, cache_, bootstrap_node_, message_id_,
                 our_external_endpoint_, threads, count_vars, boot_vars, net_vars, life_vars>>

\* a peer that is not in the routing table connects to the node
ClientConnect(c) ==
  /\ Quiet
  /\ c # OurId
  /\ c \notin SeqToSet(nodes_)
  /\ c \notin non_routing
  /\ non_routing' = non_routing \cup {c}
  /\ UNCHANGED <<nodes_, pending, filter_, cache_, bootstrap_node_, message_id_,
                 our_external_endpoint_, threads, obs_vars, count_vars, boot_vars, net_vars, life_vars>>

\* a filter entry is older than 20 minutes; the counters of a key cover the
\* lifetime of its filter entry
FilterExpire(key) ==
  /\ Quiet
  /\ key \in filter_
  /\ filter_' = filter_ \ {key}
  /\ seen' = [seen EXCEPT ![key] = 0]
  /\ forwarded' = [forwarded EXCEPT ![key] = 0]
  /\ dispatched' = [dispatched EXCEPT ![key] = 0]
  /\ UNCHANGED <<nodes_, non_routing, pending, cache_, bootstrap_node_, message_id_,
                 our_external_endpoint_, threads, obs_vars, boot_vars, net_vars, life_vars>>

\* a cache entry is older than 60 minutes
CacheExpire(name) ==
  /\ Quiet
  /\ name \in DOMAIN cache_
  /\ cache_' = [n \in DOMAIN cache_ \ {name} |-> cache_[n]]
  /\ UNCHANGED <<nodes_, non_routing, pending, filter_, bootstrap_node_, message_id_,
                 our_external_endpoint_, threads, obs_vars, count_vars, boot_vars, net_vars, life_vars>>

----------------------------------------------------------------------------
(* Reading the record of the last MessageReceived                          *)

\* the datagram of the last MessageReceived
Received == rcvd # None
Dg == TheValue(rcvd)

\* it passed the duplicate filter: the pipeline ran from filter_.Add on
Processed == Received /\ out # <<>> /\ out[1].ev = "filter_add"

----------------------------------------------------------------------------
(* The datagrams the network delivers                                      *)

\* the peers that ask to join the table, the peers that stay clients, and the
\* node whose messages are delivered
JoinIds == {0, 1, 2, 3, 4}
ClientIds == {6}
Sources == {3}
SourceId == CHOOSE s \in Sources : TRUE

\* at most MaxPending adds are in progress
MaxPending == 1

\* the body a sender src gives a message with this tag for dst
BodyFor(tag, src, dst) ==
  CASE tag = "Connect"           -> ConnectBody(EndpointsOf(src), src, dst, FobOf(src))
    [] tag = "ConnectResponse"   ->
         ConnectResponseBody(EndpointsOf(dst), EndpointsOf(src), dst, src, FobOf(src))
    [] tag = "FindGroup"         -> FindGroupBody(src, dst)
    [] tag = "FindGroupResponse" -> [target_id |-> dst, group |-> <<dst, src>>]
    [] tag = "GetData"           -> [data_tag |-> "ImmutableData", name |-> dst]
    [] tag = "GetDataResponse"   -> [name |-> src, data |-> Some("p1")]
    [] OTHER                     -> [data_tag |-> "ImmutableData", data |-> Some("p1")]

\* a well-formed datagram of a node that sends in its own name
Datagram(dst, reply_to, src, mid, tag) ==
  Message(TRUE, dst, reply_to, src, None, None, mid, "node", None, tag, BodyFor(tag, src, dst))

\* the Connect of a joining node, sent in the name of its bootstrap node
JoinConnect(bootstrap, mid, requester) ==
  Message(TRUE, OurId, None, bootstrap, None, Some(requester), mid, "nae_manager", None,
          "Connect", ConnectBody(EndpointsOf(requester), requester, OurId, FobOf(requester)))

\* a ConnectResponse that names requester as the node that asked
JoinResponse(src, mid, requester) ==
  Message(TRUE, OurId, None, src, None, None, mid, "node", Some(src),
          "ConnectResponse",
          ConnectResponseBody(EndpointsOf(requester), EndpointsOf(src), requester, src, FobOf(src)))

\* bytes whose header does not parse
Malformed(d) == [d EXCEPT !.ok = FALSE]

\* the tags delivered for every destination, and the destinations of the others
RoutedTags == {"Connect", "ConnectResponse", "FindGroup", "GetDataResponse"}
NearAndFar == {OurId, 0}

Datagrams ==
  {Datagram(dst, rt, SourceId, 0, tag) :
     dst \in Ids, rt \in {None} \cup {Some(c) : c \in ClientIds}, tag \in RoutedTags}
  \cup {Datagram(dst, rt, SourceId, 0, tag) :
     dst \in NearAndFar, rt \in {None} \cup {Some(c) : c \in ClientIds},
     tag \in Tags \ RoutedTags}
  \cup {JoinConnect(SourceId, 0, r) : r \in JoinIds}
  \cup {JoinResponse(SourceId, 0, r) : r \in {1}}
  \cup {Malformed(Datagram(OurId, None, SourceId, 0, tag)) : tag \in {"FindGroup", "GetDataResponse"}}

\* a handler may not leave more than MaxPending adds in progress
WithinBounds(d) ==
  ParseHeader(d) /\ d.tag \in {"Connect", "ConnectResponse"} => Len(pending) < MaxPending

----------------------------------------------------------------------------
(* The node with one thread in MessageReceived at a time                   *)

NumThreads == 4
Threads == 1 .. NumThreads
Idle == [pc |-> "idle", d |-> None]

\* the filter keys of the datagrams delivered
Keys == {SourceId} \X MsgIds

\* the node after construction, but for the bootstrap contacts it has read
InitNode ==
  /\ nodes_ = <<>>
  /\ non_routing = {}
  /\ pending = <<>>
  /\ filter_ = {}
  /\ cache_ = [n \in {OurId} |-> OurPublicPmid]
  /\ bootstrap_node_ = None
  /\ message_id_ \in MsgIds
  /\ threads = [t \in Threads |-> Idle]
  /\ rcvd = None
  /\ out = <<>>
  /\ seen = [k \in Keys |-> 0]
  /\ forwarded = [k \in Keys |-> 0]
  /\ dispatched = [k \in Keys |-> 0]
  /\ our_external_endpoint_ = None
  /\ joining = {}
  /\ destroy_indicator_ = TRUE
  /\ offered = {}
  /\ originated = <<>>

\* no second node is modelled
Alone == peer_node = None /\ wire = {}

\* the node constructed with an empty list of bootstrap contacts
Init == InitNode /\ Alone /\ connecting = {}

Receive(d) ==
  /\ Quiet
  /\ WithinBounds(d)
  /\ MessageReceived(d)
  /\ UNCHANGED <<threads, count_vars, boot_vars, net_vars, life_vars>>

Next ==
  \/ \E d \in Datagrams : Receive(d)
  \/ Flush
  \/ \E i \in 1 .. MaxPending, connected \in BOOLEAN : AddNodeAcceptDone(i, connected)
  \/ \E i \in 1 .. MaxPending, connected \in BOOLEAN : AddNodeDone(i, connected)
  \/ \E peer \in Ids : ConnectionLost(peer)
  \/ \E c \in ClientIds : ClientConnect(c)
  \/ \E key \in Keys : FilterExpire(key)

Spec == Init /\ [][Next]_vars

----------------------------------------------------------------------------
(* Counting what the receives of one filter key did                        *)

\* what the last MessageReceived did, read off its record
DidForward == Received /\ \E i \in 1 .. Len(out) : out[i].ev = "send" /\ out[i].msg = Dg
DidDispatch == Received /\ \E i \in 1 .. Len(out) : out[i].ev = "handle"

\* a key is not delivered more than MaxSeen times while the filter holds it
MaxSeen == 3

CountSeen(d) == seen' = [seen EXCEPT ![FilterValue(d)] = @ + 1]

CountEffects(d) ==
  /\ forwarded' = [forwarded EXCEPT ![FilterValue(d)] = @ + (IF DidForward' THEN 1 ELSE 0)]
  /\ dispatched' = [dispatched EXCEPT ![FilterValue(d)] = @ + (IF DidDispatch' THEN 1 ELSE 0)]

\* the datagrams delivered again and again: two keys, for us and for others,
\* with and without a client to relay to
DupDatagrams ==
  {Datagram(dst, rt, SourceId, mid, tag) :
     dst \in NearAndFar, rt \in {None} \cup {Some(c) : c \in ClientIds},
     mid \in {0, 1}, tag \in {"Connect", "FindGroup", "GetDataResponse"}}
  \cup {JoinConnect(SourceId, 0, r) : r \in {1, 4}}

\* MessageReceived, counted
CountedReceive(d) ==
  /\ Quiet
  /\ WithinBounds(d)
  /\ ParseHeader(d)
  /\ seen[FilterValue(d)] < MaxSeen
  /\ MessageReceived(d)
  /\ CountSeen(d)
  /\ CountEffects(d)
  /\ UNCHANGED <<threads, boot_vars, net_vars, life_vars>>

NextDup ==
  \/ \E d \in DupDatagrams : CountedReceive(d)
  \/ Flush
  \/ \E i \in 1 .. MaxPending, connected \in BOOLEAN : AddNodeAcceptDone(i, connected)
  \/ \E c \in ClientIds : ClientConnect(c)
  \/ \E key \in Keys : FilterExpire(key)

SpecDup == Init /\ [][NextDup]_vars

----------------------------------------------------------------------------
(* The node with several threads in MessageReceived                        *)

\* a thread enters MessageReceived: Parse and filter_.Check
Begin(t, d) ==
  /\ Quiet
  /\ threads[t].pc = "idle"
  /\ ParseHeader(d)
  /\ seen[FilterValue(d)] < MaxSeen
  /\ CountSeen(d)
  /\ threads' = [threads EXCEPT ![t] =
                   IF AlreadySeen(d) THEN Idle ELSE [pc |-> "checked", d |-> Some(d)]]
  /\ UNCHANGED <<node_vars, obs_vars, forwarded, dispatched, boot_vars, net_vars, life_vars>>

\* the thread goes on from filter_.Add to the end of MessageReceived
Finish(t) ==
  /\ Quiet
  /\ threads[t].pc = "checked"
  /\ WithinBounds(TheValue(threads[t].d))
  /\ rcvd' = threads[t].d
  /\ Process(TheValue(threads[t].d))
  /\ CountEffects(TheValue(threads[t].d))
  /\ threads' = [threads EXCEPT ![t] = Idle]
  /\ UNCHANGED <<seen, boot_vars, net_vars, life_vars>>

ConcDatagrams ==
  {Datagram(dst, None, SourceId, 0, tag) : dst \in {OurId, 4}, tag \in {"FindGroup", "PutData"}}
  \cup {JoinConnect(SourceId, 1, r) : r \in {1, 4}}

NextConc ==
  \/ \E t \in Threads, d \in ConcDatagrams : Begin(t, d)
  \/ \E t \in Threads : Finish(t)
  \/ Flush
  \/ \E i \in 1 .. MaxPending, connected \in BOOLEAN : AddNodeAcceptDone(i, connected)

SpecConc == Init /\ [][NextConc]_vars

----------------------------------------------------------------------------
(* The node receiving data                                                 *)

DataNames == {1, 2}
Payloads == {"p1", "p2"}

GetDataResponseMsg(dst, mid, name, data) ==
  Message(TRUE, dst, None, SourceId, None, None, mid, "node", None, "GetDataResponse", [name |-> name, data |-> data])

CacheDatagrams ==
  {GetDataResponseMsg(dst, 0, n, p) :
     dst \in {OurId, 0}, n \in DataNames, p \in {None} \cup {Some(x) : x \in Payloads}}
  \cup {Datagram(dst, None, SourceId, 0, tag) : dst \in {OurId, 0}, tag \in {"GetData", "PutData"}}
  \cup {JoinConnect(SourceId, 0, r) : r \in {1, 4}}

NextCache ==
  \/ \E d \in CacheDatagrams : Receive(d)
  \/ Flush
  \/ \E i \in 1 .. MaxPending, connected \in BOOLEAN : AddNodeAcceptDone(i, connected)
  \/ \E key \in Keys : FilterExpire(key)
  \/ \E name \in Ids : CacheExpire(name)

SpecCache == Init /\ [][NextCache]_vars


----------------------------------------------------------------------------
(* The node bootstrapping and shaking hands                                *)

\* the contacts ReadBootstrapContacts() may return, and the endpoints a
\* contact may report as ours
ContactIds == {1, 4}
ObservedEndpoints == {1, 2}

\* the node constructed with any list of bootstrap contacts: a Connect is
\* under way to each
InitBoot == InitNode /\ Alone /\ connecting \in SUBSET ContactIds

\* a FindGroup a client sends through us, its bootstrap node
RelayedFindGroup(client, mid) ==
  Message(TRUE, client, None, OurId, None, Some(client), mid, "node", None, "FindGroup",
          FindGroupBody(client, client))

\* a FindGroupResponse of src for our FindGroup
FindGroupResponseMsg(dst, reply_to, src, mid, group) ==
  Message(TRUE, dst, reply_to, src, Some(OurId), None, mid, "nae_manager", Some(src),
          "FindGroupResponse", [target_id |-> OurId, group |-> group])

Groups == {<<4>>, <<1, 4, OurId>>, <<0, 1>>}

BootDatagrams ==
  {JoinConnect(SourceId, 0, r) : r \in {0, 1, 4}}
  \cup {JoinResponse(SourceId, 0, 1), Datagram(OurId, None, SourceId, 0, "ConnectResponse")}
  \cup {Datagram(OurId, None, SourceId, 0, "FindGroup"), RelayedFindGroup(6, 0)}
  \cup {FindGroupResponseMsg(OurId, None, SourceId, 0, g) : g \in Groups}
  \cup {FindGroupResponseMsg(4, Some(OurId), SourceId, 0, <<4>>)}

NextBoot ==
  \/ \E c \in ContactIds, error \in BOOLEAN, addr \in ContactIds, ep \in ObservedEndpoints :
       BootstrapConnectDone(c, error, addr, ep)
  \/ \E c \in ContactIds : BootstrapJoin(c)
  \/ \E d \in BootDatagrams : Receive(d)
  \/ Flush
  \/ \E i \in 1 .. MaxPending, connected \in BOOLEAN : AddNodeAcceptDone(i, connected)
  \/ \E i \in 1 .. MaxPending, connected \in BOOLEAN : AddNodeDone(i, connected)
  \/ \E c \in ClientIds : ClientConnect(c)
  \/ \E key \in Keys : FilterExpire(key)

SpecBoot == InitBoot /\ [][NextBoot]_vars

----------------------------------------------------------------------------
(* The node with several handshakes under way                              *)

\* the adds that may be pending at a time
MaxHandshakes == 2

\* the peers that ask to connect, each through either message and twice over
ShakePeers == {1, 4}
ShakeMsgIds == {0, 1}
ShakeDatagrams ==
  {JoinConnect(SourceId, mid, p) : mid \in ShakeMsgIds, p \in ShakePeers}
  \cup {JoinResponse(SourceId, mid, p) : mid \in ShakeMsgIds, p \in ShakePeers}

\* MessageReceived while fewer than MaxHandshakes adds are pending
ReceiveShake(d) ==
  /\ Quiet
  /\ Len(pending) < MaxHandshakes
  /\ MessageReceived(d)
  /\ UNCHANGED <<threads, count_vars, boot_vars, net_vars, life_vars>>

NextShake ==
  \/ \E d \in ShakeDatagrams : ReceiveShake(d)
  \/ Flush
  \/ \E i \in 1 .. MaxHandshakes, connected \in BOOLEAN : AddNodeAcceptDone(i, connected)
  \/ \E i \in 1 .. MaxHandshakes, connected \in BOOLEAN : AddNodeDone(i, connected)
  \/ \E peer \in ShakePeers : ConnectionLost(peer)
  \/ \E key \in Keys : FilterExpire(key)

SpecShake == Init /\ [][NextShake]_vars

----------------------------------------------------------------------------
(* Two nodes: B bootstraps from A, its only contact                        *)

\* Both nodes run the definitions above, one at a time: the variables of the
\* node are those of the node that runs, peer_node keeps the other one's.
\* Each node sees itself as OurId and the other as PeerId: identifiers are
\* compared by XOR distance only, which the translation of a message from the
\* sender's view into the receiver's, the XOR with OurId XOR PeerId, keeps.
PeerId == 4

Frame(id) == Xor(id, Xor(OurId, PeerId))
FrameOpt(o) == {Frame(x) : x \in o}
FrameEndpoints(e) == IF e # <<>> /\ e[1] = "endpoints" THEN <<e[1], Frame(e[2])>> ELSE e
FrameFob(f) == <<f[1], Frame(f[2])>>

FrameBody(tag, body) ==
  CASE tag = "Connect" ->
         ConnectBody(FrameEndpoints(body.requester_endpoints), Frame(body.requester_id),
                     Frame(body.receiver_id), FrameFob(body.requester_fob))
    [] tag = "ConnectResponse" ->
         ConnectResponseBody(FrameEndpoints(body.requester_endpoints),
                             FrameEndpoints(body.receiver_endpoints), Frame(body.requester_id),
                             Frame(body.receiver_id), FrameFob(body.receiver_fob))
    [] tag = "FindGroup" -> FindGroupBody(Frame(body.requester_id), Frame(body.target_id))
    [] tag = "FindGroupResponse" ->
         [target_id |-> Frame(body.target_id),
          group |-> [i \in DOMAIN body.group |-> Frame(body.group[i])]]
    [] tag = "GetData" -> [data_tag |-> body.data_tag, name |-> Frame(body.name)]
    [] OTHER -> body

\* the message as the other node reads it
FrameMessage(m) ==
  Message(m.ok, Frame(m.dst), FrameOpt(m.reply_to), Frame(m.src), FrameOpt(m.grp),
          FrameOpt(m.src_reply_to), m.mid, m.auth, FrameOpt(m.signed), m.tag,
          FrameBody(m.tag, m.body))

\* the members of a node
NodeState(name, table, clients, adds, filter, cache, bootstrap, mid, endpoint, contacts, calls) ==
  [name |-> name, nodes_ |-> table, non_routing |-> clients, pending |-> adds,
   filter_ |-> filter, cache_ |-> cache, bootstrap_node_ |-> bootstrap, message_id_ |-> mid,
   our_external_endpoint_ |-> endpoint, connecting |-> contacts, joining |-> calls]

\* the node that runs
Running(name) ==
  NodeState(name, nodes_, non_routing, pending, filter_, cache_, bootstrap_node_, message_id_,
            our_external_endpoint_, connecting, joining)
Peer == TheValue(peer_node)
OtherName(name) == IF name = "A" THEN "B" ELSE "A"

\* B has been constructed with A as its only contact, the Connect under way;
\* A, started alone, has accepted B's connection
InitTwo ==
  /\ InitNode
  /\ connecting = {PeerId}
  /\ \E mid \in MsgIds :
       peer_node = Some(NodeState("A", <<>>, {PeerId}, <<>>, {},
                                  [n \in {OurId} |-> OurPublicPmid], None, mid, None, {}, {}))
  /\ wire = {}

\* the other node runs next
Switch ==
  /\ Quiet
  /\ nodes_' = Peer.nodes_
  /\ non_routing' = Peer.non_routing
  /\ pending' = Peer.pending
  /\ filter_' = Peer.filter_
  /\ cache_' = Peer.cache_
  /\ bootstrap_node_' = Peer.bootstrap_node_
  /\ message_id_' = Peer.message_id_
  /\ our_external_endpoint_' = Peer.our_external_endpoint_
  /\ connecting' = Peer.connecting
  /\ joining' = Peer.joining
  /\ peer_node' = Some(Running(OtherName(Peer.name)))
  /\ wire' = {[w EXCEPT !.mine = ~@] : w \in wire}
  /\ UNCHANGED <<threads, obs_vars, count_vars, life_vars>>

\* the transport carries what the last handler sent or relayed to the other
\* node
Transmit ==
  /\ ~Quiet
  /\ wire' = wire \cup {[mine |-> FALSE, msg |-> FrameMessage(out[i].msg)] :
                         i \in {j \in DOMAIN out : /\ out[j].ev \in {"send", "relay"}
                                                   /\ out[j].to = PeerId}}
  /\ rcvd' = None
  /\ out' = <<>>
  /\ UNCHANGED <<node_vars, threads, count_vars, boot_vars, peer_node, life_vars>>

\* the transport delivers a datagram to the node that runs
Deliver(w) ==
  /\ Quiet
  /\ w \in wire
  /\ w.mine
  /\ wire' = wire \ {w}
  /\ MessageReceived(w.msg)
  /\ UNCHANGED <<threads, count_vars, boot_vars, peer_node, life_vars>>

Connected == \E ep \in ObservedEndpoints : BootstrapConnectDone(PeerId, FALSE, PeerId, ep)
Delivered == \E w \in wire : Deliver(w)

NextTwo ==
  \/ Connected
  \/ BootstrapJoin(PeerId)
  \/ Transmit
  \/ Delivered
  \/ Switch

\* the transport is reliable and both nodes are scheduled fairly
SpecTwo ==
  /\ InitTwo
  /\ [][NextTwo]_vars
  /\ WF_vars(Switch)
  /\ SF_vars(Connected)
  /\ SF_vars(BootstrapJoin(PeerId))
  /\ SF_vars(Transmit)
  /\ SF_vars(Delivered)

----------------------------------------------------------------------------
(* The node torn down while callbacks are outstanding                      *)

\* ~RoutingNode(): the members go, destroy_indicator_ among them; the
\* callbacks handed to the connection manager may still fire. A callback that
\* does not look at its destroy guard then uses the node after its lifetime:
\* it may run as on a live node, or not at all.
Destroy ==
  /\ Quiet
  /\ destroy_indicator_
  /\ destroy_indicator_' = FALSE
  /\ UNCHANGED <<node_vars, threads, obs_vars, count_vars, boot_vars, net_vars, offered, originated>>

DownMsgIds == {0, 1}
DownDatagrams ==
  {JoinConnect(SourceId, mid, 1) : mid \in DownMsgIds}
  \cup {JoinResponse(SourceId, mid, 0) : mid \in DownMsgIds}
  \cup {Datagram(OurId, None, SourceId, mid, "FindGroup") : mid \in DownMsgIds}

NextDown ==
  \/ Destroy
  \/ \E c \in ContactIds, error \in BOOLEAN, addr \in ContactIds, ep \in ObservedEndpoints :
       BootstrapConnectDone(c, error, addr, ep)
  \/ \E c \in ContactIds : BootstrapJoin(c)
  \/ \E d \in DownDatagrams : Receive(d)
  \/ Flush
  \/ \E i \in 1 .. MaxPending, connected \in BOOLEAN : AddNodeAcceptDone(i, connected)
  \/ \E i \in 1 .. MaxPending, connected \in BOOLEAN : AddNodeDone(i, connected)
  \/ \E peer \in JoinIds : ConnectionLost(peer)

SpecDown == InitBoot /\ [][NextDown]_vars

----------------------------------------------------------------------------
(* The routing table and the classifier called on their own                *)

\* out holds the record of the last call only
Called(events) ==
  /\ out' = events
  /\ rcvd' = None

\* add_node(id) on the routing table
AddNodeCalled(id) ==
  LET r == add_node(nodes_, id)
  IN  /\ nodes_' = r.nodes
      /\ Called(<<[ev |-> "add_node", id |-> id, added |-> r.added, evicted |-> r.evicted,
                   accepted |-> check_node(nodes_, id), before |-> nodes_]>>)
      /\ UNCHANGED <<non_routing, pending, filter_, cache_, bootstrap_node_, message_id_,
                     our_external_endpoint_, threads, count_vars, boot_vars, net_vars>>

TableAdd(id) == AddNodeCalled(id) /\ UNCHANGED life_vars

\* add_node(id) by a caller that only ever adds, the peers it offered remembered
TableOffer(id) ==
  /\ AddNodeCalled(id)
  /\ offered' = offered \cup ({id} \ {OurId})
  /\ UNCHANGED <<destroy_indicator_, originated>>

\* drop_node(id) on the routing table
TableDrop(id) ==
  /\ id \in SeqToSet(nodes_)
  /\ nodes_' = drop_node(nodes_, id)
  /\ Called(<<[ev |-> "drop_node", id |-> id, before |-> nodes_]>>)
  /\ UNCHANGED <<non_routing, pending, filter_, cache_, bootstrap_node_, message_id_,
                 our_external_endpoint_, threads, count_vars, boot_vars, net_vars, life_vars>>

\* check_node(id) on the routing table
TableCheck(id) ==
  /\ Called(<<[ev |-> "check_node", id |-> id, accepted |-> check_node(nodes_, id)]>>)
  /\ UNCHANGED <<node_vars, threads, count_vars, boot_vars, net_vars, life_vars>>

\* our_close_group() on the routing table
TableCloseGroup ==
  /\ Called(<<[ev |-> "our_close_group", group |-> our_close_group(nodes_)]>>)
  /\ UNCHANGED <<node_vars, threads, count_vars, boot_vars, net_vars, life_vars>>

NextTable ==
  \/ \E id \in Ids : TableAdd(id)
  \/ \E id \in Ids : TableDrop(id)
  \/ \E id \in Ids : TableCheck(id)
  \/ TableCloseGroup

SpecTable == Init /\ [][NextTable]_vars

\* the routing table under add_node calls only
NextOffer == \E id \in Ids : TableOffer(id)

SpecOffer == Init /\ [][NextOffer]_vars

\* the routing table called on its own and by the handshake
JoinDatagrams ==
  {JoinConnect(SourceId, 0, r) : r \in {1, 2}}
  \cup {JoinResponse(SourceId, 0, r) : r \in {1, OurId}}
  \cup {FindGroupResponseMsg(OurId, None, SourceId, 0, <<1, 4, OurId>>)}

NextJoin ==
  \/ \E id \in Ids : Quiet /\ TableAdd(id)
  \/ \E id \in Ids : Quiet /\ TableDrop(id)
  \/ \E d \in JoinDatagrams : Receive(d)
  \/ Flush
  \/ \E i \in 1 .. MaxPending, connected \in BOOLEAN : AddNodeAcceptDone(i, connected)
  \/ \E i \in 1 .. MaxPending, connected \in BOOLEAN : AddNodeDone(i, connected)
  \/ \E key \in Keys : FilterExpire(key)

SpecJoin == Init /\ [][NextJoin]_vars

\* the GetData headers classified: from a node or from a group, for us or not
AuthDestinations == {OurId, 0, 6}
AuthSenders == {1, 7}
AuthGroups == {None, Some(0)}
AuthElements == {2}
GetDataFrom(dst, src, grp, element) ==
  Message(TRUE, dst, None, src, grp, None, 0, "node", None, "GetData",
          [data_tag |-> "ImmutableData", name |-> element])
AuthHeaders ==
  {GetDataFrom(dst, src, grp, element) :
     dst \in AuthDestinations, src \in AuthSenders, grp \in AuthGroups,
     element \in AuthElements}
  \cup {GetDataFrom(dst, src, grp, dst) :
          dst \in AuthDestinations, src \in AuthSenders, grp \in AuthGroups}

\* OurAuthority(element, header) called on the table as it is
Classify(header) ==
  /\ Called(<<[ev |-> "OurAuthority", header |-> header,
               authority |-> OurAuthority(header.body.name, header)]>>)
  /\ UNCHANGED <<node_vars, threads, count_vars, boot_vars, net_vars, life_vars>>

\* HandleMessage(GetData, header) called with the decoded body
GetDataHandled(header) ==
  /\ Called(HandleGetData(header).out)
  /\ UNCHANGED <<node_vars, threads, count_vars, boot_vars, net_vars, life_vars>>

NextAuth ==
  \/ \E id \in Ids : TableAdd(id)
  \/ \E header \in AuthHeaders : Classify(header)
  \/ \E header \in AuthHeaders : GetDataHandled(header)

SpecAuth == Init /\ [][NextAuth]_vars

----------------------------------------------------------------------------
(* The operations the application calls                                    *)

\* at most MaxOriginated messages of Get, Put and Post are sent
MaxOriginated == 2

\* the lambda Get, Put and Post hand to the executor: a header with
\* ++message_id_ and our source address, sent to GetTarget(to)
Originate(to, auth, tag, body) ==
  LET from == OurSourceAddress
      id   == NextMessageId(message_id_)
      msg  == Message(TRUE, to, None, from.src, from.grp, from.src_reply_to, id, auth, None,
                      tag, body)
  IN  /\ Quiet
      /\ Len(originated) < MaxOriginated
      /\ originated' = IF target_nodes(nodes_, to) = <<>> THEN originated
                       ELSE Append(originated, id)
      /\ message_id_' = id
      /\ rcvd' = None
      /\ out' = <<CallEvent(tag)>> \o SendToAll(target_nodes(nodes_, to), msg)
      /\ UNCHANGED <<nodes_, non_routing, pending, filter_, cache_, bootstrap_node_,
                     our_external_endpoint_, threads, count_vars, boot_vars, net_vars,
                     destroy_indicator_, offered>>

\* Get<DataType>(name, token)
Get(name) ==
  Originate(name, "node", "GetData", [data_tag |-> "ImmutableData", name |-> name])

\* Put<DataType>(to, data, token)
Put(to) ==
  Originate(to, "client", "PutData", [data_tag |-> "ImmutableData", data |-> Some("p1")])

\* Post<FunctorType>(to, functor, token)
Post(to) ==
  Originate(to, "node", "Post", [data_tag |-> "ImmutableData", data |-> Some("p1")])

\* the addresses the application names
Names == {OurId, 0, PeerId}

OriginDatagrams ==
  {JoinConnect(SourceId, 0, r) : r \in {0, 1}}
  \cup {FindGroupResponseMsg(OurId, None, SourceId, 0, <<1, 4, OurId>>)}

NextOrigin ==
  \/ \E name \in Names : Get(name)
  \/ \E to \in Names : Put(to)
  \/ \E to \in Names : Post(to)
  \/ \E c \in ContactIds, ep \in ObservedEndpoints : BootstrapConnectDone(c, FALSE, c, ep)
  \/ \E c \in ContactIds : BootstrapJoin(c)
  \/ \E d \in OriginDatagrams : Receive(d)
  \/ Flush
  \/ \E connected \in BOOLEAN : AddNodeAcceptDone(1, connected)
  \/ \E key \in Keys : FilterExpire(key)

SpecOrigin == InitBoot /\ [][NextOrigin]_vars

----------------------------------------------------------------------------
(* Two joined nodes and the transport between them                         *)

\* two nodes that have each accepted the other's Connect: each holds the
\* other in its routing table, neither has a bootstrap node, nothing is in
\* flight
InitNet ==
  /\ nodes_ = <<PeerId>>
  /\ non_routing = {}
  /\ pending = <<>>
  /\ filter_ = {}
  /\ cache_ = [n \in {OurId} |-> OurPublicPmid]
  /\ bootstrap_node_ = None
  /\ message_id_ \in MsgIds
  /\ threads = [t \in Threads |-> Idle]
  /\ rcvd = None
  /\ out = <<>>
  /\ seen = [k \in Keys |-> 0]
  /\ forwarded = [k \in Keys |-> 0]
  /\ dispatched = [k \in Keys |-> 0]
  /\ our_external_endpoint_ = None
  /\ connecting = {}
  /\ joining = {}
  /\ destroy_indicator_ = TRUE
  /\ offered = {}
  /\ originated = <<>>
  /\ \E mid \in MsgIds :
       peer_node = Some(NodeState("A", <<PeerId>>, {}, <<>>, {},
                                  [n \in {OurId} |-> OurPublicPmid], None, mid, None, {}, {}))
  /\ wire = {}

\* the addresses the applications of the two nodes name: the other node and
\* an address that is neither node's
NetNames == {PeerId, 0}

\* Get, Put, Post called at the node that runs, one message at a time: the
\* applications wait until nothing is in flight
Called_Get == wire = {} /\ \E name \in NetNames : Get(name)
Called_Put == wire = {} /\ \E to \in NetNames : Put(to)
Called_Post == wire = {} /\ \E to \in NetNames : Post(to)

NextNet ==
  \/ Called_Get
  \/ Called_Put
  \/ Called_Post
  \/ Transmit
  \/ Delivered
  \/ Switch

\* the transport is reliable, both nodes are scheduled fairly, no filter
\* entry expires
SpecNet ==
  /\ InitNet
  /\ [][NextNet]_vars
  /\ WF_vars(Switch)
  /\ SF_vars(Transmit)
  /\ SF_vars(Delivered)

----------------------------------------------------------------------------
(* Reading the record further                                              *)

\* positions of the forwarding sends (the original bytes to a routing peer), of
\* the relay to a client, of the handler calls and of everything local
ForwardSends == {i \in 1 .. Len(out) : out[i].ev = "send" /\ out[i].msg = Dg}
Relays == {i \in 1 .. Len(out) : out[i].ev = "relay"}
Handles == {i \in 1 .. Len(out) : out[i].ev = "handle"}
LocalEvents == {i \in 1 .. Len(out) : out[i].ev \in {"handle", "throw", "HandleGet"}}

\* the peers the original bytes were forwarded to, in order
RECURSIVE ForwardTargetsFrom(_)
ForwardTargetsFrom(i) ==
  IF i > Len(out) THEN <<>>
  ELSE IF i \in ForwardSends THEN <<out[i].to>> \o ForwardTargetsFrom(i + 1)
  ELSE ForwardTargetsFrom(i + 1)
ForwardTargets == ForwardTargetsFrom(1)

\* tags whose case of the switch reaches a handler
HandledTags == {"Connect", "ConnectResponse", "FindGroup", "FindGroupResponse", "PutData", "Post"}

Min(a, b) == IF a < b THEN a ELSE b

----------------------------------------------------------------------------
(* C3 *)

\* C3: for every datagram that passed the filter, all sends of the original
\* bytes to target_nodes(destination) come before the relay to a client and
\* before every handler call (or failure) of that datagram.
C3_ForwardBeforeDispatch ==
  Processed =>
    /\ ForwardTargets = target_nodes(nodes_, Dg.dst)
    /\ \A i \in ForwardSends, j \in Relays \cup LocalEvents : i < j

\* a datagram was forwarded to two peers and then handled locally
C3_Witness ==
  /\ Processed
  /\ Cardinality(ForwardSends) >= 2
  /\ Handles # {}

----------------------------------------------------------------------------
(* C4 *)

----------------------------------------------------------------------------
(* C5 *)

\* C5: greedy mode: when the table is not empty and the target is outside the
\* close-group radius, the datagram is sent to exactly one peer, the entry of
\* the table with the smallest XOR distance to the target.
C5_GreedyForwardsToClosest ==
  (Processed /\ nodes_ # <<>> /\ ~InCloseGroupRadius(nodes_, Dg.dst)) =>
    /\ Len(ForwardTargets) = 1
    /\ ForwardTargets[1] \in SeqToSet(nodes_)
    /\ \A q \in SeqToSet(nodes_) \ {ForwardTargets[1]} :
         Xor(ForwardTargets[1], Dg.dst) < Xor(q, Dg.dst)

\* a datagram went to one peer that is not of the close group, out of a table
\* larger than the close group
C5_Witness ==
  /\ Processed
  /\ Len(nodes_) > GroupSize
  /\ ~InCloseGroupRadius(nodes_, Dg.dst)
  /\ Len(ForwardTargets) = 1
  /\ ForwardTargets[1] \notin SeqToSet(our_close_group(nodes_))

----------------------------------------------------------------------------
(* C6 *)

\* C6: a node for which GroupSize or more peers of the table are strictly
\* closer to the destination than itself never dispatches the datagram: no
\* handler runs, it only forwards (and relays).
C6_NoDispatchOutOfRange ==
  (/\ Processed
   /\ ~(Cardinality({p \in SeqToSet(nodes_) : Xor(p, Dg.dst) < Xor(OurId, Dg.dst)}) < GroupSize))
  =>
    /\ LocalEvents = {}
    /\ \A i \in 1 .. Len(out) :
         \/ out[i].ev \in {"filter_add", "cache_add"}
         \/ out[i].ev \in {"send", "relay"} /\ out[i].msg = Dg

\* a FindGroup for a target the node is not in range of was forwarded only
C6_Witness ==
  /\ Processed
  /\ ~AddressInCloseGroupRange(nodes_, Dg.dst)
  /\ Dg.tag = "FindGroup"
  /\ ForwardSends # {}

----------------------------------------------------------------------------
(* C7 *)

\* C7: a Connect or ConnectResponse whose destination is not our id is never
\* passed to a handler, also when the node is in close-group range of the
\* destination; it is still forwarded to target_nodes(destination).
C7_DirectMessageDrop ==
  (Processed /\ Dg.tag \in {"Connect", "ConnectResponse"} /\ Dg.dst # OurId) =>
    /\ LocalEvents = {}
    /\ ForwardTargets = target_nodes(nodes_, Dg.dst)

\* a Connect for another node reached us in range of it and was forwarded
C7_Witness ==
  /\ Processed
  /\ Dg.tag = "Connect"
  /\ Dg.dst # OurId
  /\ AddressInCloseGroupRange(nodes_, Dg.dst)
  /\ Dg.reply_to = None
  /\ ForwardSends # {}

----------------------------------------------------------------------------
(* C8 *)

\* the reply-to of the datagram is a connected non-routing peer
ReplyToIsClient == Dg.reply_to # None /\ TheValue(Dg.reply_to) \in non_routing

\* C8: when the reply-to identifier of a datagram that passed the filter is a
\* connected non-routing peer, the original bytes are sent to that client once
\* and nothing is dispatched locally; otherwise nothing is sent to any
\* non-routing peer.
C8_RelayToClient ==
  Processed =>
    /\ ReplyToIsClient =>
         /\ Cardinality(Relays) = 1
         /\ \A i \in Relays : out[i].to = TheValue(Dg.reply_to) /\ out[i].msg = Dg
         /\ LocalEvents = {}
    /\ ~ReplyToIsClient =>
         /\ Relays = {}
         /\ \A i \in 1 .. Len(out) : out[i].ev = "send" => out[i].to \notin non_routing
    /\ \A i \in 1 .. Len(out) : out[i].ev = "send" => out[i].to \notin non_routing

\* a datagram for us with a handler was relayed to the client instead
C8_Witness ==
  /\ Processed
  /\ ReplyToIsClient
  /\ Dg.dst = OurId
  /\ Dg.tag = "FindGroup"
  /\ ForwardSends # {}
  /\ Relays # {}

----------------------------------------------------------------------------
(* C10 *)

\* C10: if the header or the tag does not parse, the filter, the cache, the
\* routing table and bootstrap_node_ keep their values, nothing is sent and no
\* handler runs.
C10_MalformedDropped ==
  [][(rcvd' # None /\ ~TheValue(rcvd').ok)
       => (UNCHANGED node_vars /\ out' = <<>>)]_vars

\* unparsable bytes arrived at a node that would have processed them
C10_Witness ==
  /\ Received
  /\ ~Dg.ok
  /\ FilterValue(Dg) \notin filter_
  /\ nodes_ # <<>>
  /\ out = <<>>


----------------------------------------------------------------------------
(* C1 *)

\* C1 as claimed: a header delivered twice is dispatched locally exactly once.
C1_SeenTwiceDispatchedOnce ==
  \A k \in Keys : seen[k] >= 2 => dispatched[k] = 1

\* C1 amended: while the filter holds a key, every further datagram with that
\* key is discarded at the filter step (no state of the node changes, nothing
\* is sent, relayed or dispatched), a datagram whose key the filter does not
\* hold is processed and its key inserted, and over the lifetime of the filter
\* entry the key is forwarded at most once and dispatched at most once.
C1_DuplicateDiscarded ==
  /\ [](\A k \in Keys :
          /\ forwarded[k] <= 1
          /\ dispatched[k] <= 1
          /\ seen[k] >= 1 => k \in filter_)
  /\ [][(rcvd' # None /\ FilterValue(TheValue(rcvd')) \in filter_)
          => (UNCHANGED node_vars /\ out' = <<>>)]_vars
  /\ [][(rcvd' # None /\ FilterValue(TheValue(rcvd')) \notin filter_)
          => (Processed' /\ FilterValue(TheValue(rcvd')) \in filter_')]_vars

\* the second datagram of a key that was forwarded and dispatched has just
\* been discarded
C1_Witness ==
  /\ Received
  /\ ~Processed
  /\ out = <<>>
  /\ seen[FilterValue(Dg)] = 2
  /\ forwarded[FilterValue(Dg)] = 1
  /\ dispatched[FilterValue(Dg)] = 1

----------------------------------------------------------------------------
(* C2 *)

\* C2: with several threads in MessageReceived, every interleaving of the
\* filter check and the filter add of two datagrams with the same key leads to
\* at most one local dispatch and at most one forwarding round for the key.
C2_OneRoundUnderInterleaving ==
  \A k \in Keys : dispatched[k] <= 1 /\ forwarded[k] <= 1

----------------------------------------------------------------------------
(* C9 *)

\* C9: after a GetDataResponse carrying data p for name n has passed the
\* filter, the cache maps n to p and its other entries are as before, whether
\* or not the node is the destination; after any other datagram, or a
\* GetDataResponse without data, the cache is unchanged.
C9_CacheAddOnResponse ==
  [][Processed' =>
       IF Dg'.tag = "GetDataResponse" /\ Dg'.body.data # None
       THEN /\ DOMAIN cache_' = DOMAIN cache_ \cup {Dg'.body.name}
            /\ cache_'[Dg'.body.name] = TheValue(Dg'.body.data)
            /\ \A n \in DOMAIN cache_ \ {Dg'.body.name} : cache_'[n] = cache_[n]
       ELSE cache_' = cache_]_vars

\* a response for another node, only forwarded here, left its data in the cache
C9_Witness ==
  /\ Processed
  /\ Dg.tag = "GetDataResponse"
  /\ Dg.body.data = Some("p2")
  /\ Dg.dst # OurId
  /\ ~AddressInCloseGroupRange(nodes_, Dg.dst)
  /\ Dg.body.name \in DOMAIN cache_
  /\ cache_[Dg.body.name] = "p2"

----------------------------------------------------------------------------
(* C11 *)

\* a bootstrap contact has answered before with the identifier expected of it
BootstrapSucceeded == our_external_endpoint_ # None

\* the callback of a bootstrap Connect has just run
BootstrapCallback == Quiet /\ out' = <<CallEvent("BootstrapConnect")>>

\* C11: only the first bootstrap connect that succeeds with the identifier of
\* its contact sets bootstrap_node_ and our_external_endpoint_ and calls
\* ConnectToCloseGroup; the callback of a later success overwrites neither
\* and asks for no further FindGroup.
C11_FirstSuccessOnly ==
  [][(BootstrapSucceeded /\ BootstrapCallback)
       => UNCHANGED <<bootstrap_node_, our_external_endpoint_, joining>>]_vars

----------------------------------------------------------------------------
(* C12 *)

\* the callback of a bootstrap Connect that failed, or whose peer answered
\* with another identifier, has just run: nothing of the node changed and
\* nothing was sent
AttemptAbandoned ==
  /\ UNCHANGED <<node_vars, joining>>
  /\ \A i \in DOMAIN out' : out'[i].ev # "send"

\* the last bootstrap Connect has completed and none has succeeded
NoneSucceeded == connecting # {} /\ connecting' = {} /\ ~BootstrapSucceeded'

\* the Bootstrap operation has completed with NoBootstrapPeer
NoBootstrapPeer == \E i \in DOMAIN out : out[i] = CallEvent("NoBootstrapPeer")

\* C12: a bootstrap connect that fails or whose peer has another identifier
\* than its contact changes no state and sends nothing, and leaves the other
\* attempts under way; when the last attempt has completed and none has
\* succeeded, bootstrap_node_ is unset and Bootstrap completes with
\* NoBootstrapPeer.
C12_AbandonedAndNoBootstrapPeer ==
  [][BootstrapCallback =>
       /\ (joining' = joining) => AttemptAbandoned
       /\ \E c \in connecting : connecting' = connecting \ {c}
       /\ NoneSucceeded => (bootstrap_node_' = None /\ NoBootstrapPeer')]_vars

----------------------------------------------------------------------------
(* C13 *)

\* ConnectToCloseGroup has just run
JoinCall == Quiet /\ out' # <<>> /\ out'[1] = CallEvent("ConnectToCloseGroup")

\* the sends of the handler recorded in out, in order
Sends(events) == SelectSeq(events, LAMBDA e : e.ev = "send")
Recipients(events) == [i \in 1 .. Len(Sends(events)) |-> Sends(events)[i].to]

\* C13: every message ConnectToCloseGroup sends is a FindGroup whose target is
\* our own id; while bootstrap_node_ is set it goes to the bootstrap node and
\* to nobody else, and when bootstrap_node_ is unset it goes, still tagged
\* FindGroup, to each peer of target_nodes(own id).
C13_JoinSendsFindGroup ==
  [][JoinCall =>
       /\ \A i \in DOMAIN Sends(out') :
            /\ Sends(out')[i].msg.tag = "FindGroup"
            /\ Sends(out')[i].msg.body.target_id = OurId
       /\ Recipients(out') = IF bootstrap_node_ # None THEN <<TheValue(bootstrap_node_)>>
                             ELSE target_nodes(nodes_, OurId)]_vars

----------------------------------------------------------------------------
(* C14 *)

\* the datagram just received was dispatched to the handler of tag
Dispatched(tag) ==
  /\ Processed'
  /\ Dg'.tag = tag
  /\ \E i \in DOMAIN out' : out'[i] = HandleEvent(Dg')

\* the messages of tag among the sends recorded in events
SentOf(events, tag) == {events[i].msg : i \in {j \in DOMAIN events : events[j].ev = "send" /\ events[j].msg.tag = tag}}

\* C14: a FindGroup dispatched locally is answered: a FindGroupResponse is
\* sent whose group is our close group followed by ourselves, whose header
\* names the target as source group and us as source node, which we signed and
\* which is addressed back to the sender of the request.
C14_FindGroupAnswered ==
  [][Dispatched("FindGroup") =>
       /\ SentOf(out', "FindGroupResponse") # {}
       /\ \A m \in SentOf(out', "FindGroupResponse") :
            /\ m.body.group = Append(our_close_group(nodes_), OurId)
            /\ m.grp = Some(Dg'.body.target_id)
            /\ m.src = OurId
            /\ m.signed = Some(OurId)
            /\ m.dst = Dg'.src
            /\ m.reply_to = Dg'.src_reply_to]_vars

----------------------------------------------------------------------------
(* C15 *)

\* the peers of a group that HandleMessage(FindGroupResponse) must ask to connect
Wanted(group) == {group[i] : i \in {j \in DOMAIN group : check_node(nodes_, group[j]) /\ group[j] # OurId}}

\* C15: a FindGroupResponse dispatched locally makes us send a Connect, with us
\* as requester and P as receiver, for exactly the peers P of the group that
\* check_node accepts and that are not ourselves: never for ourselves nor for
\* a peer of the routing table; and each Connect has a message id of its own.
C15_ConnectToEachAccepted ==
  [][Dispatched("FindGroupResponse") =>
       /\ {m.body.receiver_id : m \in SentOf(out', "Connect")} = Wanted(Dg'.body.group)
       /\ \A m \in SentOf(out', "Connect") :
            /\ m.body.requester_id = OurId
            /\ m.dst = m.body.receiver_id
            /\ m.body.receiver_id # OurId
            /\ m.body.receiver_id \notin SeqToSet(nodes_)
       /\ \A m, n \in SentOf(out', "Connect") :
            m.body.receiver_id # n.body.receiver_id => m.mid # n.mid]_vars

----------------------------------------------------------------------------
(* C16 *)

\* the completion of an add has just run and the close group is another
GroupChanged ==
  /\ Quiet
  /\ Len(pending') < Len(pending)
  /\ CloseGroupDifference(nodes_, nodes_') # None

\* C16: every Connect dispatched locally is answered with a ConnectResponse
\* that echoes requester_id and requester_endpoints, names us as receiver and
\* is signed by us, and an AddNodeAccept for the requester is issued with it;
\* when an accept succeeds and the close group changed, the
\* CloseGroupDifference is handed to the application.
C16_ConnectAnswered ==
  /\ [][Dispatched("Connect") =>
          /\ SentOf(out', "ConnectResponse") # {}
          /\ \A m \in SentOf(out', "ConnectResponse") :
               /\ m.body.requester_id = Dg'.body.requester_id
               /\ m.body.requester_endpoints = Dg'.body.requester_endpoints
               /\ m.body.receiver_id = OurId
               /\ m.signed = Some(OurId)
          /\ pending' = Append(pending, AddRequest("AddNodeAccept", Dg'.body.requester_id,
                                                   Dg'.body.requester_fob,
                                                   Dg'.body.requester_endpoints))]_vars
  /\ [][GroupChanged =>
          \E i \in DOMAIN out' :
            out'[i] = ChurnEvent(TheValue(CloseGroupDifference(nodes_, nodes_')))]_vars

----------------------------------------------------------------------------
(* C17 *)

\* the pending adds that the handler just run has issued
Issued == SubSeq(pending', Len(pending) + 1, Len(pending'))

\* C17: on a ConnectResponse dispatched locally, check_node is asked about the
\* responder (receiver_id); when it accepts, AddNode is issued for the
\* responder, with the responder's identifier, public key and endpoints, and
\* never for ourselves; when it rejects, no AddNode is issued.
C17_AddsResponder ==
  [][Dispatched("ConnectResponse") =>
       /\ Issued = IF check_node(nodes_, Dg'.body.receiver_id)
                   THEN <<AddRequest("AddNode", Dg'.body.receiver_id, Dg'.body.receiver_fob,
                                     Dg'.body.receiver_endpoints)>>
                   ELSE <<>>
       /\ \A i \in DOMAIN Issued : Issued[i].id # OurId]_vars

----------------------------------------------------------------------------
(* C18 *)

\* C18: bootstrap_node_ is cleared exactly when the routing table first
\* reaches K peers: while bootstrap_node_ is set the table has fewer than K
\* peers, whether AddNode or AddNodeAccept made it grow, and bootstrap_node_
\* is not cleared while the table has fewer than K peers.
C18_BootstrapClearedAtQuorum ==
  /\ [](bootstrap_node_ # None => Len(nodes_) < GroupSize)
  /\ [][(bootstrap_node_ # None /\ bootstrap_node_' = None) => Len(nodes_') >= GroupSize]_vars

----------------------------------------------------------------------------
(* C20 *)

\* the completion of a pending add has just run
AddCompleted == Quiet /\ out' # <<>> /\ out'[1].ev = "AddDone"

\* the CloseGroupDifferences handed to the application by the handler recorded
Churns(events) == {i \in DOMAIN events : events[i].ev = "HandleChurn"}

\* C20: handshakes for the same peer P that are under way together are
\* idempotent: whatever the order in which the Connect and ConnectResponse
\* handlers and the completions of their adds run, the routing table never
\* holds P twice, and a completion hands the application a
\* CloseGroupDifference that announces P, one at most, only when P entered
\* the routing table by it: the completion of a second add for P changes
\* nothing and announces nothing.
C20_HandshakesIdempotent ==
  /\ [](\A i, j \in DOMAIN nodes_ : nodes_[i] = nodes_[j] => i = j)
  /\ [][AddCompleted =>
          /\ Cardinality(Churns(out')) <= 1
          /\ \A i \in Churns(out') : \A p \in out'[i].diff.added :
               p \notin SeqToSet(nodes_) /\ p \in SeqToSet(nodes_') /\ p = out'[1].id
          /\ out'[1].id \in SeqToSet(nodes_) => (nodes_' = nodes_ /\ Churns(out') = {})]_vars

\* a second add for a peer has completed with its connection made when the
\* first had put the peer into the routing table: nothing was announced
C20_Witness ==
  /\ rcvd = None
  /\ Len(out) = 1
  /\ out[1].ev = "AddDone"
  /\ out[1].connected
  /\ ~out[1].added
  /\ out[1].id \in SeqToSet(nodes_)
  /\ \A i, j \in DOMAIN nodes_ : nodes_[i] = nodes_[j] => i = j

----------------------------------------------------------------------------
(* C19 *)

\* each of the two nodes has the other in its routing table
TablesJoined ==
  /\ PeerId \in SeqToSet(nodes_)
  /\ PeerId \in SeqToSet(Peer.nodes_)

\* C19: with B holding A as its only bootstrap contact, a reliable transport
\* and fair scheduling, the exchange of FindGroup, FindGroupResponse, Connect
\* and ConnectResponse eventually completes: A's routing table contains B and
\* B's contains A (each having handed one CloseGroupDifference to its
\* application).
C19_TwoNodeBootstrapCompletes == <>TablesJoined

----------------------------------------------------------------------------
(* C21 *)

\* the records of a handler that did something: it sent, relayed, dispatched
\* or called the application
Effects(events) ==
  {i \in DOMAIN events :
     events[i].ev \in {"filter_add", "send", "relay", "handle", "throw", "HandleGet", "HandleChurn"}}

\* C21: a deferred callback (the completion of a bootstrap connect, of
\* AddNode, of AddNodeAccept, the receive and the connection-lost upcalls)
\* that fires after the node has been torn down is a no-op: it writes no
\* member of the node, sends nothing and calls no handler of the application.
C21_TornDownCallbacksNoOp ==
  [][~destroy_indicator_ =>
       /\ UNCHANGED <<nodes_, non_routing, filter_, cache_, bootstrap_node_, message_id_,
                      our_external_endpoint_, joining>>
       /\ Effects(out') = {}]_vars

----------------------------------------------------------------------------
(* C22 *)

InRange(id) == AddressInCloseGroupRange(nodes_, id)

\* the rows of the classifier's table for a header h and the element it names
ClientManagerRow(h) == h.grp = None /\ InRange(h.src) /\ h.dst # h.body.name
NaeManagerRow(h) == InRange(h.body.name) /\ h.dst = h.body.name
NodeManagerRow(h) == h.grp # None /\ InRange(h.dst) /\ h.dst # OurId
ManagedNodeRow(h) == h.grp # None /\ InRange(TheValue(h.grp)) /\ h.dst = OurId

\* the authority of the first row that applies
RowAuthority(h) ==
  CASE ClientManagerRow(h) -> "client_manager"
    [] ~ClientManagerRow(h) /\ NaeManagerRow(h) -> "nae_manager"
    [] ~ClientManagerRow(h) /\ ~NaeManagerRow(h) /\ NodeManagerRow(h) -> "node_manager"
    [] ~ClientManagerRow(h) /\ ~NaeManagerRow(h) /\ ~NodeManagerRow(h) /\ ManagedNodeRow(h) ->
         "managed_node"
    [] OTHER -> "invalid"

\* C22: the classifier is a function of the routing table, the header and
\* the element that changes nothing: it returns client_manager when the header
\* is not from a group, the sender is in close-group range and the destination
\* is not the element; else nae_manager when the element is in close-group
\* range and is the destination; else node_manager when the header is from a
\* group, the destination is in close-group range and is not us; else
\* managed_node when the header is from a group, the group is in close-group
\* range and the destination is us; else it fails, and then HandleGet is not
\* called; when it does not fail HandleGet is called with its result.
C22_AuthorityTable ==
  /\ [](\A i \in DOMAIN out :
          /\ out[i].ev = "OurAuthority" => out[i].authority = RowAuthority(out[i].header)
          /\ out[i].ev = "HandleGet" =>
               /\ out[1].ev = "handle"
               /\ out[i].authority = RowAuthority(out[1].msg)
               /\ out[i].authority # "invalid"
          /\ out[i].ev = "throw" =>
               /\ out[1].ev = "handle"
               /\ RowAuthority(out[1].msg) = "invalid"
               /\ \A j \in DOMAIN out : out[j].ev # "HandleGet")
  /\ [][(out' # <<>> /\ out'[1].ev \in {"OurAuthority", "handle"}) => UNCHANGED node_vars]_vars

\* with peers closer to the sender than we are, a header from a group, for
\* us, about an element that is not the destination is classified
\* managed_node, the last row of the table
C22_Witness ==
  /\ out # <<>>
  /\ out[1].ev = "OurAuthority"
  /\ out[1].authority = "managed_node"
  /\ ~InRange(out[1].header.src)
  /\ out[1].header.dst # out[1].header.body.name
  /\ Len(nodes_) >= GroupSize

----------------------------------------------------------------------------
(* C23 *)

\* the handler of the application for a tag, and its calls recorded in events
Upcall(tag) ==
  CASE tag = "GetData" -> "HandleGet"
    [] tag = "PutData" -> "HandlePut"
    [] tag = "Post" -> "HandlePost"
    [] OTHER -> "none"
Upcalls(events) == {i \in DOMAIN events : events[i].ev \in {"HandleGet", "HandlePut", "HandlePost"}}

\* C23: a GetData, PutData or Post datagram that passed the filter at a node
\* in close-group range of its destination, and was not relayed to a client,
\* makes exactly one call of HandleGet, HandlePut or HandlePost respectively,
\* with the source of the header, the locally computed authority, the data
\* type and the name; a datagram with another tag calls none of them.
C23_SurfacedToApplication ==
  [][Processed' =>
       IF /\ Dg'.tag \in {"GetData", "PutData", "Post"}
          /\ Relays' = {}
          /\ AddressInCloseGroupRange(nodes_, Dg'.dst)
       THEN /\ Cardinality(Upcalls(out')) = 1
            /\ \A i \in Upcalls(out') :
                 /\ out'[i].ev = Upcall(Dg'.tag)
                 /\ out'[i].source = <<Dg'.src, Dg'.grp, Dg'.src_reply_to>>
                 /\ out'[i].authority = RowAuthority(Dg')
                 /\ out'[i].data_tag = Dg'.body.data_tag
       ELSE Upcalls(out') = {}]_vars


\* ---------------------------------------------------------------------
\* C24: the routing table never holds one identifier twice and never holds
\* the node's own identifier, whatever add_node / drop_node calls and
\* handshake events came before; an add_node of the own identifier or of an
\* identifier already held reports added = FALSE and leaves the table as
\* it was.
NoDuplicates(table) == \A i, j \in DOMAIN table : table[i] = table[j] => i = j

AddCalled(events) == Len(events) = 1 /\ events[1].ev = "add_node"

C24_NoDuplicatesNoSelf ==
  /\ [](NoDuplicates(nodes_) /\ OurId \notin SeqToSet(nodes_))
  /\ [][(AddCalled(out') /\ (out'[1].id = OurId \/ out'[1].id \in SeqToSet(nodes_)))
          => (~out'[1].added /\ nodes_' = nodes_)]_vars

C24_Witness ==
  /\ AddCalled(out)
  /\ out[1].id \in SeqToSet(out[1].before)
  /\ ~out[1].added
  /\ Len(nodes_) >= 2


\* ---------------------------------------------------------------------
\* C25: for every table T and every peer identifier x not in T, after
\* add_node(x) either x is in the resulting table, or x was itself the
\* eviction candidate and the add was rejected with the table unchanged;
\* the resulting table, and every reachable table, has at most
\* kRoutingTableSize entries.
EvictionCandidate(table, id) ==
  LET grown == SortByDistance(SeqToSet(table) \cup {id})
  IN  IF Len(grown) <= RoutingTableSize \/ find_candidate_for_removal(grown) = 0
      THEN None
      ELSE Some(grown[find_candidate_for_removal(grown)])

NewPeerOffered(events, table) ==
  /\ AddCalled(events)
  /\ events[1].id # OurId
  /\ events[1].id \notin SeqToSet(table)

KClosest(S) == SeqToSet(SubSeq(SortByDistance(S), 1,
                               IF Cardinality(S) < GroupSize THEN Cardinality(S) ELSE GroupSize))

Occupancy(S, b) == Cardinality({p \in S : bucket_index(p) = b})

BeyondClose(table) == SeqToSet(table) \ KClosest(SeqToSet(table))

OverOccupied(S) == {p \in S \ KClosest(S) : Occupancy(S, bucket_index(p)) > kBucketSize_}

Removed(event) == IF event.added THEN event.evicted ELSE Some(event.id)

CheckCalled(events) == Len(events) = 1 /\ events[1].ev = "check_node"

C28_CheckAgreesWithAdd ==
  /\ [][AddCalled(out') => (out'[1].accepted <=> out'[1].added)]_vars
  /\ [][CheckCalled(out')
          => /\ out'[1].accepted <=> add_node(nodes_, out'[1].id).added
             /\ nodes_' = nodes_]_vars

C28_Witness ==
  /\ CheckCalled(out)
  /\ ~out[1].accepted
  /\ out[1].id # OurId
  /\ out[1].id \notin SeqToSet(nodes_)
  /\ Len(nodes_) = RoutingTableSize


\* ---------------------------------------------------------------------
\* C29: for every routing table, our_close_group() returns min(K, size)
\* entries; they are exactly the peers of the table closest to the owner by
\* XOR distance, listed in strictly ascending distance; the call does not
\* change the table.
CloseGroupCalled(events) == Len(events) = 1 /\ events[1].ev = "our_close_group"

C29_CloseGroupIsClosest ==
  [][CloseGroupCalled(out')
       => LET group == out'[1].group
          IN  /\ Len(group) = IF Len(nodes_) < GroupSize THEN Len(nodes_) ELSE GroupSize
              /\ SeqToSet(group) \subseteq SeqToSet(nodes_)
              /\ \A q \in SeqToSet(group), p \in SeqToSet(nodes_) \ SeqToSet(group) :
                   Xor(OurId, q) < Xor(OurId, p)
              /\ \A i, j \in DOMAIN group : i < j => Xor(OurId, group[i]) < Xor(OurId, group[j])
              /\ nodes_' = nodes_]_vars

C29_Witness ==
  /\ CloseGroupCalled(out)
  /\ Len(out[1].group) = GroupSize
  /\ Len(nodes_) = RoutingTableSize


\* ---------------------------------------------------------------------
\* C30: the handshake state only moves forward. Once bootstrap_node_ has
\* been cleared (the node is Joined) no later step sets bootstrap_node_
\* again, a late completion of a bootstrap connect to another contact
\* included, and no later ConnectToCloseGroup sends its FindGroup to a
\* bootstrap peer alone.
Joined == our_external_endpoint_ # None /\ bootstrap_node_ = None

FindGroupViaBootstrap(events) ==
  \E i \in DOMAIN events :
    /\ events[i].ev = "send"
    /\ events[i].msg.tag = "FindGroup"
    /\ events[i].msg.src = OurId
    /\ Some(events[i].to) = bootstrap_node_'

C30_JoinedStaysJoined ==
  [][Joined => (Joined' /\ ~FindGroupViaBootstrap(out'))]_vars


\* ---------------------------------------------------------------------
\* C31: the message ids of the messages a node originates form a strictly
\* increasing sequence: the ids of the Get, Put and Post messages it has
\* sent, in the order of sending, ascend strictly, also when the counter
\* passes its largest value; and the Connect messages one FindGroupResponse
\* makes the node send carry ascending ids.
OwnRequests(events) ==
  {i \in DOMAIN events :
     /\ events[i].ev = "send"
     /\ events[i].msg.tag \in {"GetData", "PutData", "Post", "FindGroup", "Connect"}
     /\ OurId \in {events[i].msg.src} \cup events[i].msg.src_reply_to}

C31_IdsStrictlyIncrease ==
  /\ [](\A i, j \in DOMAIN originated : i < j => originated[i] < originated[j])
  /\ [](\A i, j \in OwnRequests(out) : i < j => out[i].msg.mid <= out[j].msg.mid)


\* ---------------------------------------------------------------------
\* C32: when add_node makes the table exceed kRoutingTableSize, the entry
\* removed is the furthest entry from the owner that lies in a bucket
\* holding more than kBucketSize peers and is not among the K closest. If
\* that entry is the peer just added, add_node returns added = FALSE and no
\* evicted node, and the table is the table before the call; otherwise it
\* returns added = TRUE with that entry as the evicted one, and the table is
\* the grown table without it.
Furthest(S) == {r \in S : \A q \in S : Xor(OurId, q) <= Xor(OurId, r)}

InFlight == wire # {} \/ \E i \in DOMAIN out : out[i].ev \in {"send", "relay"}

ForwardedOnceAtMost ==
  /\ (\E d \in rcvd' : \E i \in DOMAIN out' : out'[i].ev = "send" /\ out'[i].msg = d)
       => \A d \in rcvd' : <<d.src, d.mid>> \notin filter_ /\ <<d.src, d.mid>> \in filter_'
  /\ \/ filter_ \subseteq filter_'
     \/ filter_' = Peer.filter_ /\ Peer'.filter_ = filter_

C34_ForwardingTerminates ==
  /\ [][ForwardedOnceAtMost]_vars
  /\ <>[](~InFlight)

\* a datagram came back to the node that had sent it and nothing is in flight
\* any more
C34_Witness ==
  /\ ~InFlight
  /\ Len(originated) = 1
  /\ Cardinality(filter_) = 1
  /\ Cardinality(Peer.filter_) = 1


\* ---------------------------------------------------------------------
\* C35: a message a node originated (Get, Put, Post, FindGroup, Connect)
\* that the network echoes back to that node is absorbed by the node's
\* duplicate filter: the originator neither forwards it again nor
\* dispatches it locally.
OwnEcho(d) ==
  /\ d.src = OurId
  /\ d.grp = None
  /\ d.tag \in {"GetData", "PutData", "Post", "FindGroup", "Connect"}

C35_EchoAbsorbed ==
  [][\A d \in rcvd' : OwnEcho(d) =>
       \A i \in DOMAIN out' : out'[i].ev \notin {"send", "relay", "handle", "throw"}]_vars


\* ---------------------------------------------------------------------
\* C36: two different messages never share a filter key. The
\* FindGroupResponse or ConnectResponse a node sends for a FindGroup or
\* Connect it handles carries the request's message id and the responder as
\* source, and its filter key differs from the key of the request, so a node
\* that has seen the request does not discard the response as a duplicate.
ResponsesTo(d, events) ==
  {i \in DOMAIN events :
     /\ events[i].ev = "send"
     /\ events[i].msg.tag = (IF d.tag = "FindGroup" THEN "FindGroupResponse"
                             ELSE "ConnectResponse")
     /\ events[i].msg # d}

C36_ResponseKeyDiffers ==
  [][\A d \in rcvd' :
       d.tag \in {"FindGroup", "Connect"} =>
         \A i \in ResponsesTo(d, out') : FilterValue(out'[i].msg) # FilterValue(d)]_vars

=============================================================================
